---- MODULE Spec2Model ----
(***************************************************************************)
(* The guest-process lifecycle of src/main/host/process.c: one Process,    *)
(* the start/stop tasks process_schedule posts, the main Thread, and the   *)
(* ProcessWaiter objects process_listenForStatus arms on timers and        *)
(* descriptors.  The event scheduler, the Thread implementation and the    *)
(* descriptor-listener layer are collaborators that live outside           *)
(* process.c; they appear here through the interface process.c consumes.   *)
(***************************************************************************)
EXTENDS Integers, Sequences, FiniteSets, TLC

\* ------------------------------------------------------------------ bounds
MaxTime == 2        \* startTime, stopTime and the time of process_schedule range over 0..MaxTime
MaxWaiters == 1     \* ProcessWaiter objects one run may allocate
MaxElapsed == 1     \* largest total of the measured bursts of one run, in timer ticks (microseconds)

\* --------------------------------------------------------------- constants
SIMTIME_ONE_SECOND == 1000000000
TimerTicksPerSecond == 1000000

Sides == {"timer", "descriptor"}
Waiters == 1..MaxWaiters
InterposeMethods == {"INTERPOSE_PTRACE", "INTERPOSE_PRELOAD", "INTERPOSE_OTHER"}
ReturnCodes == {0, 7}
VARIABLES
    proc,       \* struct _Process
    thread,     \* the Thread _process_start creates (proc->mainThread points to it)
    worker,     \* the worker: active process, host CPU and tracker, counters, log
    waiters,    \* the ProcessWaiter objects, their listeners and their descriptors
    sched,      \* the event scheduler: current time, pending tasks, fired tasks
    host,       \* the creator of the Process: its reference, whether it scheduled
    pc,         \* where control is: idle, inside thread_run / thread_resume, or dead
    cur         \* the guest burst on the stack: the waiter being notified, whether it listened

vars == <<proc, thread, worker, waiters, sched, host, pc, cur>>

\* The readings g_timer_elapsed can give for the next burst.
Elapsed == 0..(MaxElapsed - proc.totalRunTime)

\* The objects the handlers of process.c read and write.
Heap == [proc |-> proc, thread |-> thread, worker |-> worker, waiters |-> waiters]

\* ------------------------------------------------------------------ Thread
thread_isRunning(h) == h.thread.state = "running"

thread_terminate(h) ==
    IF h.thread.state \in {"running", "exited"}
    THEN [h EXCEPT !.thread.state = "terminated",
                   !.thread.terminations = IF @ < 2 THEN @ + 1 ELSE @]
    ELSE h

thread_ref(h) == [h EXCEPT !.thread.refCount = @ + 1]

thread_unref(h) ==
    IF h.thread.refCount > 0
    THEN [h EXCEPT !.thread.refCount = @ - 1,
                   !.thread.freed = (h.thread.refCount = 1)]
    ELSE h

\* ----------------------------------------------------------------- Process
process_isRunning(h) ==
    h.proc.mainThread # "NULL" /\ thread_isRunning(h)

CloseFD(h, fd) == [h EXCEPT !.worker.openFDs = @ \ {fd}]

\* The main thread is released without being terminated first.
_process_freeNoTerminate(h) ==
    LET h1 == IF h.proc.mainThread # "NULL"
              THEN [thread_unref(h) EXCEPT !.proc.mainThread = "NULL"]
              ELSE h
        h2 == IF h1.proc.stderrFD >= 0 THEN CloseFD(h1, h1.proc.stderrFD) ELSE h1
        h3 == IF h2.proc.stdoutFD >= 0 THEN CloseFD(h2, h2.proc.stdoutFD) ELSE h2
    IN  [h3 EXCEPT !.worker.processFree = @ + 1, !.proc.freed = TRUE]

\* The log files are left open when the Process is freed.
_process_freeNoClose(h) ==
    LET h1 == IF h.proc.mainThread # "NULL"
              THEN LET t == IF thread_isRunning(h) THEN thread_terminate(h) ELSE h
                   IN  [thread_unref(t) EXCEPT !.proc.mainThread = "NULL"]
              ELSE h
    IN  [h1 EXCEPT !.worker.processFree = @ + 1, !.proc.freed = TRUE]

_process_free(h) ==
    LET h1 == IF h.proc.mainThread # "NULL"
              THEN LET t == IF thread_isRunning(h) THEN thread_terminate(h) ELSE h
                   IN  [thread_unref(t) EXCEPT !.proc.mainThread = "NULL"]
              ELSE h
        h2 == IF h1.proc.stderrFD >= 0 THEN CloseFD(h1, h1.proc.stderrFD) ELSE h1
        h3 == IF h2.proc.stdoutFD >= 0 THEN CloseFD(h2, h2.proc.stdoutFD) ELSE h2
    IN  [h3 EXCEPT !.worker.processFree = @ + 1, !.proc.freed = TRUE]

process_ref(h) == [h EXCEPT !.proc.referenceCount = @ + 1]

process_unref(h) ==
    LET n == h.proc.referenceCount - 1
        h1 == [h EXCEPT !.proc.referenceCount = n]
    IN  IF n < 0 THEN [h EXCEPT !.worker.assertFailed = TRUE]
        ELSE IF n = 0 THEN _process_free(h1)
        ELSE h1

\* (SimulationTime)(elapsedTimeSec * SIMTIME_ONE_SECOND); the timer's reading is
\* a whole number of ticks, elapsedTimeSec = e / TimerTicksPerSecond.
ElapsedToDelay(e) == (e * SIMTIME_ONE_SECOND) \div TimerTicksPerSecond

\* The tracker is not told about the burst.
_process_handleTimerResultNoTracker(h, e) ==
    [h EXCEPT !.worker.cpuDelay = @ + ElapsedToDelay(e),
              !.proc.totalRunTime = @ + e]

\* The run time of the last burst replaces the total.
_process_handleTimerResultLastBurst(h, e) ==
    [h EXCEPT !.worker.cpuDelay = @ + ElapsedToDelay(e),
              !.worker.processingTime = @ + ElapsedToDelay(e),
              !.proc.totalRunTime = e]

_process_handleTimerResult(h, e) ==
    [h EXCEPT !.worker.cpuDelay = @ + ElapsedToDelay(e),
              !.worker.processingTime = @ + ElapsedToDelay(e),
              !.proc.totalRunTime = @ + e]

\* Every logged return code counts as a plugin error.
_process_logReturnCodeCountsAll(h, code) ==
    IF ~h.proc.didLogReturnCode
    THEN [h EXCEPT !.worker.returnCodeLines = @ + 1,
                   !.worker.loggedCode = code,
                   !.worker.pluginErrors = @ + 1,
                   !.proc.didLogReturnCode = TRUE]
    ELSE h

_process_logReturnCode(h, code) ==
    IF ~h.proc.didLogReturnCode
    THEN [h EXCEPT !.worker.returnCodeLines = @ + 1,
                   !.worker.loggedCode = code,
                   !.worker.pluginErrors = IF code = 0 THEN @ ELSE @ + 1,
                   !.proc.didLogReturnCode = TRUE]
    ELSE h

\* The exited thread is logged but stays the main thread.
_process_checkKeepsThread(h0) ==
    LET h == [h0 EXCEPT !.worker.checkedWhileActive =
                            @ \/ h0.worker.activeProcess # "NULL"]
    IN
    IF h.proc.mainThread = "NULL" THEN h
    ELSE IF thread_isRunning(h)
    THEN h
    ELSE LET h1 == _process_logReturnCode(h, h.thread.returnCode)
         IN  [h1 EXCEPT !.worker.totalRuntimeLines = @ + 1]

\* checkedWhileActive records a call made while the worker's active-process
\* slot was still set.
_process_check(h0) ==
    LET h == [h0 EXCEPT !.worker.checkedWhileActive =
                            @ \/ h0.worker.activeProcess # "NULL"]
    IN
    IF h.proc.mainThread = "NULL" THEN h
    ELSE IF thread_isRunning(h)
    THEN h
    ELSE LET h1 == _process_logReturnCode(h, h.thread.returnCode)
             h2 == thread_unref(thread_terminate(h1))
         IN  [h2 EXCEPT !.proc.mainThread = "NULL",
                        !.worker.totalRuntimeLines = @ + 1]

\* ------------------------------------------------- descriptors and listeners
NoListener ==
    [state |-> "none", refCount |-> 0, attached |-> FALSE, monitor |-> "DLF_NEVER"]

NoDescriptor ==
    [state |-> "none", refCount |-> 0, ext |-> FALSE]

NoWaiter ==
    [alloc |-> "none",
     has |-> [s \in Sides |-> FALSE],
     lptr |-> [s \in Sides |-> FALSE],
     referenceCount |-> 0,
     L |-> [s \in Sides |-> NoListener],
     D |-> [s \in Sides |-> NoDescriptor],
     notifyCount |-> 0, resumeCount |-> 0, lateEdge |-> FALSE]

descriptor_ref(h, w, s) == [h EXCEPT !.waiters[w].D[s].refCount = @ + 1]

descriptor_unref(h, w, s) ==
    LET d == h.waiters[w].D[s]
    IN  IF d.state # "live" \/ d.refCount = 0 THEN h
        ELSE IF d.refCount = 1
        THEN [h EXCEPT !.waiters[w].D[s] =
                  [state |-> "freed", refCount |-> 0, ext |-> d.ext]]
        ELSE [h EXCEPT !.waiters[w].D[s].refCount = @ - 1]

\* The freed Waiter keeps its reference to the thread.
_process_unrefWaiterKeepsThread(h, w) ==
    LET n == h.waiters[w].referenceCount - 1
        h1 == [h EXCEPT !.waiters[w].referenceCount = n]
        h3 == IF h1.waiters[w].has["timer"] THEN descriptor_unref(h1, w, "timer") ELSE h1
        h4 == IF h3.waiters[w].has["descriptor"]
              THEN descriptor_unref(h3, w, "descriptor") ELSE h3
    IN  IF n < 0 \/ h.waiters[w].alloc # "live"
        THEN [h EXCEPT !.worker.assertFailed = TRUE]
        ELSE IF n = 0
        THEN [h4 EXCEPT !.waiters[w].alloc = "freed", !.worker.waiterFree = @ + 1]
        ELSE h1

_process_unrefWaiter(h, w) ==
    LET n == h.waiters[w].referenceCount - 1
        h1 == [h EXCEPT !.waiters[w].referenceCount = n]
        h2 == thread_unref(h1)
        h3 == IF h2.waiters[w].has["timer"] THEN descriptor_unref(h2, w, "timer") ELSE h2
        h4 == IF h3.waiters[w].has["descriptor"]
              THEN descriptor_unref(h3, w, "descriptor") ELSE h3
    IN  IF n < 0 \/ h.waiters[w].alloc # "live"
        THEN [h EXCEPT !.worker.assertFailed = TRUE]
        ELSE IF n = 0
        THEN [h4 EXCEPT !.waiters[w].alloc = "freed", !.worker.waiterFree = @ + 1]
        ELSE h1

\* Dropping the last reference of a listener runs its two free functions:
\* process_unref on the object and _process_unrefWaiter on the argument.
descriptorlistener_unref(h, w, s) ==
    LET l == h.waiters[w].L[s]
    IN  IF l.state # "live" \/ l.refCount = 0 THEN h
        ELSE IF l.refCount = 1
        THEN _process_unrefWaiter(
                 process_unref([h EXCEPT !.waiters[w].L[s] =
                     [state |-> "freed", refCount |-> 0, attached |-> FALSE,
                      monitor |-> "DLF_NEVER"]]), w)
        ELSE [h EXCEPT !.waiters[w].L[s].refCount = @ - 1]

descriptorlistener_setMonitorStatus(h, w, s, filter) ==
    IF h.waiters[w].L[s].state = "live"
    THEN [h EXCEPT !.waiters[w].L[s].monitor = filter]
    ELSE h

descriptor_addListener(h, w, s) ==
    [h EXCEPT !.waiters[w].L[s].attached = TRUE, !.waiters[w].L[s].refCount = @ + 1]

descriptor_removeListener(h, w, s) ==
    IF h.waiters[w].L[s].attached
    THEN descriptorlistener_unref([h EXCEPT !.waiters[w].L[s].attached = FALSE], w, s)
    ELSE h

\* ------------------------------------------------- process_listenForStatus
\* The listener is installed without taking its Process reference.
InstallListenerNoProcessRef(h, w, s) ==
    LET h1 == [h EXCEPT !.waiters[w].lptr[s] = TRUE,
                        !.waiters[w].L[s] =
                            [state |-> "live", refCount |-> 1, attached |-> FALSE,
                             monitor |-> "DLF_NEVER"]]
        h3 == [h1 EXCEPT !.waiters[w].referenceCount = @ + 1]
        h4 == descriptorlistener_setMonitorStatus(h3, w, s, "DLF_OFF_TO_ON")
    IN  descriptor_addListener(h4, w, s)

\* One side of process_listenForStatus: descriptorlistener_new, the two
\* references the listener holds, the monitor status and the attachment.
InstallListener(h, w, s) ==
    LET h1 == [h EXCEPT !.waiters[w].lptr[s] = TRUE,
                        !.waiters[w].L[s] =
                            [state |-> "live", refCount |-> 1, attached |-> FALSE,
                             monitor |-> "DLF_NEVER"]]
        h2 == process_ref(h1)
        h3 == [h2 EXCEPT !.waiters[w].referenceCount = @ + 1]
        h4 == descriptorlistener_setMonitorStatus(h3, w, s, "DLF_OFF_TO_ON")
    IN  descriptor_addListener(h4, w, s)

\* A Waiter is allocated even when there is nothing to wait for.
process_listenForStatusAlways(h, w, timeout, descriptor) ==
    LET h0 == [h EXCEPT !.waiters[w].alloc = "live",
                        !.waiters[w].has = [s \in Sides |->
                            IF s = "timer" THEN timeout ELSE descriptor],
                        !.waiters[w].lptr = [s \in Sides |-> FALSE],
                        !.waiters[w].referenceCount = 0]
        h1 == thread_ref(h0)
        h2 == IF timeout THEN descriptor_ref(h1, w, "timer") ELSE h1
        h3 == IF descriptor THEN descriptor_ref(h2, w, "descriptor") ELSE h2
        h4 == [h3 EXCEPT !.worker.waiterNew = @ + 1]
        h5 == IF timeout THEN InstallListener(h4, w, "timer") ELSE h4
    IN  IF descriptor THEN InstallListener(h5, w, "descriptor") ELSE h5

process_listenForStatus(h, w, timeout, descriptor) ==
    IF ~timeout /\ ~descriptor THEN h
    ELSE
    LET h0 == [h EXCEPT !.waiters[w].alloc = "live",
                        !.waiters[w].has = [s \in Sides |->
                            IF s = "timer" THEN timeout ELSE descriptor],
                        !.waiters[w].lptr = [s \in Sides |-> FALSE],
                        !.waiters[w].referenceCount = 0]
        h1 == thread_ref(h0)
        h2 == IF timeout THEN descriptor_ref(h1, w, "timer") ELSE h1
        h3 == IF descriptor THEN descriptor_ref(h2, w, "descriptor") ELSE h2
        h4 == [h3 EXCEPT !.worker.waiterNew = @ + 1]
        h5 == IF timeout THEN InstallListener(h4, w, "timer") ELSE h4
    IN  IF descriptor THEN InstallListener(h5, w, "descriptor") ELSE h5

\* -------------------------------------------- _process_notifyStatusChanged
UnregisterListener(h, w, s) ==
    IF h.waiters[w].has[s] /\ h.waiters[w].lptr[s]
    THEN descriptorlistener_setMonitorStatus(
             descriptor_removeListener(h, w, s), w, s, "DLF_NEVER")
    ELSE h

\* Only the timer's listener is unregistered.
UnregisterTimerListenerOnly(h, w) == UnregisterListener(h, w, "timer")

\* Only the descriptor's listener is unregistered.
UnregisterDescriptorListenerOnly(h, w) == UnregisterListener(h, w, "descriptor")

\* "Unregister both listeners whenever either one triggers."
UnregisterListeners(h, w) ==
    UnregisterListener(UnregisterListener(h, w, "timer"), w, "descriptor")

\* Reading waiter->timerListener or waiter->descriptorListener.  A read of a
\* Waiter that was freed yields whatever the allocator left there: NULL, or a
\* wild pointer (wild) whose unref brings the program down.
DestroyListener(h, w, s, wild) ==
    IF h.worker.crashed THEN h
    ELSE IF h.waiters[w].alloc = "live"
    THEN IF h.waiters[w].lptr[s] THEN descriptorlistener_unref(h, w, s) ELSE h
    ELSE [h EXCEPT !.worker.useAfterFree = TRUE,
                   !.worker.crashed = wild]

\* "Destroy the listeners, which will also unref and free the waiter."
DestroyListeners(h, w, wild) ==
    DestroyListener(DestroyListener(h, w, "timer", wild), w, "descriptor", wild)

\* -------------------------------------------------------- process_schedule
PostsStart(p) == p.stopTime = 0 \/ p.startTime < p.stopTime

\* A stop is posted whenever a stop time is set.
PostsStopAnyStopTime(p) == p.stopTime > 0

PostsStop(p) == p.stopTime > 0 /\ p.stopTime > p.startTime

\* A start that is due exactly now gets no floor of one tick.
StartDelayNoFloor(p, now) == IF p.startTime < now THEN 1 ELSE p.startTime - now

StartDelay(p, now) == IF p.startTime <= now THEN 1 ELSE p.startTime - now

\* A stop time already reached gives the stop task no delay at all.
StopDelayNoFloor(p, now) == IF p.stopTime <= now THEN 0 ELSE p.stopTime - now

StopDelay(p, now) == IF p.stopTime <= now THEN 1 ELSE p.stopTime - now

\* The stop task is posted before the start task.
process_scheduleStopFirst(p, now) ==
    (IF PostsStop(p)
     THEN <<[kind |-> "stop", delay |-> StopDelay(p, now)]>> ELSE <<>>)
    \o
    (IF PostsStart(p)
     THEN <<[kind |-> "start", delay |-> StartDelay(p, now)]>> ELSE <<>>)

\* The tasks process_schedule posts, in the order it posts them.
process_schedule(p, now) ==
    (IF PostsStart(p)
     THEN <<[kind |-> "start", delay |-> StartDelay(p, now)]>> ELSE <<>>)
    \o
    (IF PostsStop(p)
     THEN <<[kind |-> "stop", delay |-> StopDelay(p, now)]>> ELSE <<>>)

\* --------------------------------------------------------- event scheduler
worker_scheduleTask(s, task) ==
    LET t == [kind |-> task.kind, delay |-> task.delay, at |-> s.now,
              time |-> s.now + task.delay]
    IN  [s EXCEPT !.queue = Append(@, t), !.posted = Append(@, t)]

RECURSIVE ScheduleAll(_, _)
ScheduleAll(s, tasks) ==
    IF tasks = <<>> THEN s
    ELSE ScheduleAll(worker_scheduleTask(s, Head(tasks)), Tail(tasks))

\* The next task to run: the earliest deadline, insertion order among equals.
NextTask(s) ==
    CHOOSE i \in 1..Len(s.queue) :
        \A j \in 1..Len(s.queue) :
            \/ s.queue[i].time < s.queue[j].time
            \/ (s.queue[i].time = s.queue[j].time /\ i <= j)

Remove(q, i) == [j \in 1..(Len(q) - 1) |-> IF j < i THEN q[j] ELSE q[j + 1]]

PopTask(s) ==
    LET i == NextTask(s)
    IN  [s EXCEPT !.now = s.queue[i].time,
                  !.queue = Remove(@, i),
                  !.fired = Append(@, [kind |-> s.queue[i].kind,
                                       time |-> s.queue[i].time])]

\* ---------------------------------------------------------- _process_start
\* open(): the lowest descriptor number not in use, or -1.
OpenFD(h, ok) ==
    IF ok THEN CHOOSE fd \in 3..6 : fd \notin h.worker.openFDs /\
                   \A g \in 3..6 : g < fd => g \in h.worker.openFDs
    ELSE -1

Fatal(h) == [h EXCEPT !.worker.fatal = TRUE]

\* Any interposeMethod gets a thread.
KnownInterposeMethodAny(m) == TRUE

\* The interpose methods _process_start has a thread constructor for.
KnownInterposeMethod(m) == m \in {"INTERPOSE_PTRACE", "INTERPOSE_PRELOAD"}

\* _process_start goes on whatever the Process looks like.
_process_start_returnsEarlyNever(h) == FALSE

\* _process_start returns at once if the Process is already running:
\* "dont do anything if we are already running".
_process_start_returnsEarly(h) == process_isRunning(h)

\* _process_start up to the call of thread_run.  opens says which of the two
\* open() calls succeed.
_process_start_enter(h, opens) ==
    LET out == OpenFD(h, opens # "stdout_fails")
        h1 == [h EXCEPT !.proc.stdoutFD = out,
                        !.worker.openFDs = IF out >= 0 THEN @ \cup {out} ELSE @]
        err == OpenFD(h1, opens # "stderr_fails")
        h2 == [h1 EXCEPT !.proc.stderrFD = err,
                         !.worker.openFDs = IF err >= 0 THEN @ \cup {err} ELSE @]
        h3 == [h2 EXCEPT !.thread = [state |-> "new", returnCode |-> 0, refCount |-> 1,
                                     freed |-> FALSE, terminations |-> 0],
                         !.proc.mainThread = "thread",
                         !.proc.threadIDCounter = @ + 1]
    IN  IF out < 0 THEN Fatal(h1)
        ELSE IF err < 0 THEN Fatal(h2)
        ELSE IF h2.proc.mainThread # "NULL" THEN [h2 EXCEPT !.worker.assertFailed = TRUE]
        ELSE IF ~KnownInterposeMethod(h2.proc.interposeMethod)
        THEN Fatal(h2)
        ELSE [h3 EXCEPT !.worker.activeProcess = "proc",
                        !.proc.isExecuting = TRUE,
                        !.thread.state = "running"]

\* _process_start after thread_run has returned.
_process_start_exit(h, e) ==
    LET h1 == _process_handleTimerResult(h, e)
        h2 == [h1 EXCEPT !.worker.activeProcess = "NULL"]
    IN  _process_check(h2)

\* -------------------------------------------------------- process_continue
\* process_continue resumes whatever the Process looks like.
process_continue_resumesAlways(h) == TRUE

\* process_continue goes on to thread_resume only if the Process is running:
\* "if we are not running, no need to notify anyone".
process_continue_resumes(h) == process_isRunning(h)

\* process_continue up to the call of thread_resume.
process_continue_enter(h) ==
    [h EXCEPT !.worker.activeProcess = "proc", !.proc.isExecuting = TRUE]

\* process_continue after thread_resume has returned.
\* The active-process slot is cleared only after _process_check.
process_continue_exitClearsLate(h, e) ==
    LET h1 == [h EXCEPT !.proc.isExecuting = FALSE]
        h2 == _process_handleTimerResult(h1, e)
        h3 == _process_check(h2)
    IN  [h3 EXCEPT !.worker.activeProcess = "NULL"]

process_continue_exit(h, e) ==
    LET h1 == [h EXCEPT !.proc.isExecuting = FALSE]
        h2 == _process_handleTimerResult(h1, e)
        h3 == [h2 EXCEPT !.worker.activeProcess = "NULL"]
    IN  _process_check(h3)

\* ------------------------------------------------------------ process_stop
\* The main thread is neither terminated nor dropped.
process_stopKeepsThread(h, e) ==
    LET h1 == [h EXCEPT !.worker.activeProcess = "proc", !.proc.isExecuting = TRUE]
        h3 == [h1 EXCEPT !.proc.isExecuting = FALSE]
        h4 == _process_handleTimerResult(h3, e)
        h5 == [h4 EXCEPT !.worker.activeProcess = "NULL"]
    IN  _process_check(h5)

process_stop(h, e) ==
    LET h1 == [h EXCEPT !.worker.activeProcess = "proc", !.proc.isExecuting = TRUE]
        h2 == IF h1.proc.mainThread # "NULL"
              THEN [thread_unref(thread_terminate(h1)) EXCEPT !.proc.mainThread = "NULL"]
              ELSE h1
        h3 == [h2 EXCEPT !.proc.isExecuting = FALSE]
        h4 == _process_handleTimerResult(h3, e)
        h5 == [h4 EXCEPT !.worker.activeProcess = "NULL"]
    IN  _process_check(h5)

\* The guest returns from thread_run or thread_resume: still running (blocked),
\* or exited with a return code.
GuestReturns(h, running, code) ==
    IF running THEN h
    ELSE [h EXCEPT !.thread.state = "exited", !.thread.returnCode = code]

\* ------------------------------------------------------------------- state
Commit(h) ==
    /\ proc' = h.proc
    /\ thread' = h.thread
    /\ worker' = h.worker
    /\ waiters' = h.waiters

\* What the program does after the handler that produced h: carry on, or stay
\* down after an abort (error(), a failed assertion) or a crash.
After(h) ==
    IF h.worker.crashed THEN "crashed"
    ELSE IF h.worker.assertFailed \/ h.worker.fatal THEN "aborted"
    ELSE "idle"

Init ==
    /\ proc \in [startTime : 0..MaxTime, stopTime : 0..MaxTime,
                 interposeMethod : InterposeMethods,
                 isExecuting : {FALSE}, totalRunTime : {0},
                 didLogReturnCode : {FALSE}, mainThread : {"NULL"},
                 threadIDCounter : {0}, stderrFD : {-1}, stdoutFD : {-1},
                 referenceCount : {1}, freed : {FALSE}]
    /\ thread = [state |-> "none", returnCode |-> 0, refCount |-> 0,
                 freed |-> FALSE, terminations |-> 0]
    /\ worker = [activeProcess |-> "NULL", cpuDelay |-> 0, processingTime |-> 0,
                 pluginErrors |-> 0, processNew |-> 1, processFree |-> 0,
                 waiterNew |-> 0, waiterFree |-> 0, returnCodeLines |-> 0,
                 loggedCode |-> -1, totalRuntimeLines |-> 0,
                 openFDs |-> {}, assertFailed |-> FALSE, fatal |-> FALSE,
                 useAfterFree |-> FALSE, crashed |-> FALSE,
                 checkedWhileActive |-> FALSE]
    /\ waiters = [w \in Waiters |-> NoWaiter]
    /\ sched \in [now : 0..MaxTime, queue : {<<>>}, posted : {<<>>}, fired : {<<>>}]
    /\ host = [holdsProcess |-> TRUE, scheduled |-> FALSE, rescheduled |-> FALSE]
    /\ pc = "idle"
    /\ cur = [waiter |-> 0, listened |-> FALSE, timeout |-> FALSE, descriptor |-> FALSE]

\* ----------------------------------------------------------------- actions
\* The host boots: process_schedule(proc).
Schedule ==
    /\ pc = "idle" /\ host.holdsProcess /\ ~host.scheduled
    /\ sched' = ScheduleAll(sched, process_schedule(proc, sched.now))
    /\ LET h1 == IF PostsStart(proc) THEN process_ref(Heap) ELSE Heap
           h2 == IF PostsStop(proc) THEN process_ref(h1) ELSE h1
       IN  Commit(h2)
    /\ host' = [host EXCEPT !.scheduled = TRUE]
    /\ UNCHANGED <<pc, cur>>

\* The creator of the Process releases its reference.
HostUnref ==
    /\ pc = "idle" /\ host.holdsProcess
    /\ host' = [host EXCEPT !.holdsProcess = FALSE]
    /\ Commit(process_unref(Heap))
    /\ UNCHANGED <<sched, pc, cur>>

Pending(kind) ==
    /\ pc = "idle"
    /\ sched.queue # <<>>
    /\ sched.queue[NextTask(sched)].kind = kind

\* The start task runs: _process_runStartTask.  The task is freed, and its
\* Process reference released, once its callback has returned.
FireStartTask ==
    /\ Pending("start")
    /\ sched' = PopTask(sched)
    /\ IF _process_start_returnsEarly(Heap)
       THEN LET h == process_unref(Heap)
            IN  Commit(h) /\ pc' = After(h) /\ UNCHANGED cur
       ELSE \E opens \in {"ok", "stdout_fails", "stderr_fails"} :
            LET h == _process_start_enter(Heap, opens)
            IN  /\ Commit(h)
                /\ pc' = IF After(h) = "idle" THEN "thread_run" ELSE After(h)
                /\ cur' = [waiter |-> 0, listened |-> FALSE, timeout |-> FALSE, descriptor |-> FALSE]
    /\ UNCHANGED host

\* thread_run returns to _process_start, which finishes; the start task is freed.
ThreadRunReturns ==
    /\ pc = "thread_run"
    /\ \E running \in BOOLEAN, code \in ReturnCodes, e \in Elapsed :
           LET h1 == _process_start_exit(GuestReturns(Heap, running, code), e)
               h2 == process_unref(h1)
           IN  Commit(h2) /\ pc' = After(h2)
    /\ cur' = [waiter |-> 0, listened |-> FALSE, timeout |-> FALSE, descriptor |-> FALSE]
    /\ UNCHANGED <<sched, host>>

\* The stop task runs: _process_runStopTask, then the task is freed.
FireStopTask ==
    /\ Pending("stop")
    /\ sched' = PopTask(sched)
    /\ \E e \in Elapsed :
           LET h == process_unref(process_stop(Heap, e))
           IN  Commit(h) /\ pc' = After(h)
    /\ UNCHANGED <<host, cur>>

\* The timer and the descriptor a blocking system call hands to
\* process_listenForStatus: each is held by its owner.
NewDescriptors(h, w, timeout, descriptor) ==
    IF ~timeout /\ ~descriptor THEN h
    ELSE [h EXCEPT !.waiters[w].D = [s \in Sides |->
             IF (s = "timer" /\ timeout) \/ (s = "descriptor" /\ descriptor)
             THEN [state |-> "live", refCount |-> 1, ext |-> TRUE]
             ELSE NoDescriptor]]

\* The guest issues a blocking system call: process_listenForStatus.
GuestListen ==
    /\ pc \in {"thread_run", "thread_resume"}
    /\ ~cur.listened
    /\ \E timeout \in BOOLEAN, descriptor \in BOOLEAN :
           LET w == worker.waiterNew + 1
           IN  /\ (timeout \/ descriptor) => w <= MaxWaiters
               /\ Commit(process_listenForStatus(
                      NewDescriptors(Heap, w, timeout, descriptor),
                      w, timeout, descriptor))
               /\ cur' = [cur EXCEPT !.listened = TRUE, !.timeout = timeout,
                                     !.descriptor = descriptor]
    /\ UNCHANGED <<sched, host, pc>>

\* process_continue is called with the listeners still registered.
NotifyWithoutUnregister(h, w) ==
    [h EXCEPT !.waiters[w].notifyCount = IF @ < 3 THEN @ + 1 ELSE @]

\* _process_notifyStatusChanged up to the call of thread_resume inside
\* process_continue.
Notify(h, w) ==
    UnregisterListeners(
        [h EXCEPT !.waiters[w].notifyCount = IF @ < 3 THEN @ + 1 ELSE @], w)

Monitoring(h, w, s) ==
    /\ h.waiters[w].L[s].state = "live"
    /\ h.waiters[w].L[s].attached
    /\ h.waiters[w].L[s].monitor = "DLF_OFF_TO_ON"

\* The timer of waiter w expires, or its descriptor gains the awaited status:
\* an OFF -> ON edge of the status, delivered to the listener attached to the
\* descriptor, if any.  (The status may fall back to OFF at any time, which no
\* DLF_OFF_TO_ON listener observes, so every edge can be followed by another.)
StatusEdge(w, s) ==
    /\ pc = "idle"
    /\ waiters[w].D[s].state = "live" /\ waiters[w].D[s].ext
    /\ LET h0 == [Heap EXCEPT !.waiters[w].lateEdge = @ \/ waiters[w].notifyCount > 0]
       IN  IF Monitoring(h0, w, s)
           THEN LET h1 == Notify(h0, w)
                IN  IF process_continue_resumes(h1)
                    THEN /\ Commit(process_continue_enter(
                                [h1 EXCEPT !.waiters[w].resumeCount = @ + 1]))
                         /\ pc' = "thread_resume"
                         /\ cur' = [waiter |-> w, listened |-> FALSE, timeout |-> FALSE, descriptor |-> FALSE]
                    ELSE /\ \E wild \in BOOLEAN :
                                LET h2 == DestroyListeners(h1, w, wild)
                                IN  Commit(h2) /\ pc' = After(h2)
                         /\ UNCHANGED cur
           ELSE Commit(h0) /\ UNCHANGED <<pc, cur>>
    /\ UNCHANGED <<sched, host>>

\* _process_notifyStatusChanged from entry to return, for a guest that does
\* not call process_listenForStatus while resumed: o says how the guest comes
\* back (still running or exited with a code), how long it ran, and what a
\* read of a freed Waiter yields.
_process_notifyStatusChanged(h, w, o) ==
    LET h1 == Notify(h, w)
    IN  IF process_continue_resumes(h1)
        THEN DestroyListeners(
                 process_continue_exit(
                     GuestReturns(process_continue_enter(
                                      [h1 EXCEPT !.waiters[w].resumeCount = @ + 1]),
                                  o.running, o.code),
                     o.e),
                 w, o.wild)
        ELSE DestroyListeners(h1, w, o.wild)

\* An OFF -> ON edge on side s of waiter w, delivered between two tasks.
DeliverEdge(h, w, s, o) ==
    IF h.waiters[w].D[s].state = "live" /\ h.waiters[w].D[s].ext
    THEN LET h0 == [h EXCEPT !.waiters[w].lateEdge = @ \/ h.waiters[w].notifyCount > 0]
         IN  IF Monitoring(h0, w, s) THEN _process_notifyStatusChanged(h0, w, o) ELSE h0
    ELSE h

\* The resumed guest changes the status of the timer or the descriptor it was
\* waiting on (it reads the expired timer, writes to the descriptor): another
\* OFF -> ON edge, while _process_notifyStatusChanged of that waiter is still
\* inside process_continue.  A listener still registered would be called
\* again, from inside the guest.
GuestStatusEdge(s) ==
    /\ pc = "thread_resume"
    /\ LET w == cur.waiter
       IN  /\ waiters[w].D[s].state = "live" /\ waiters[w].D[s].ext
           /\ ~waiters[w].lateEdge
           /\ LET h0 == [Heap EXCEPT !.waiters[w].lateEdge = TRUE]
              IN  IF Monitoring(h0, w, s)
                  THEN LET h1 == Notify(h0, w)
                       IN  Commit(IF process_continue_resumes(h1)
                                  THEN process_continue_enter(
                                           [h1 EXCEPT !.waiters[w].resumeCount = @ + 1])
                                  ELSE h1)
                  ELSE Commit(h0)
    /\ UNCHANGED <<sched, host, pc, cur>>

\* The owner of the timer and the descriptor of waiter w (the host's
\* descriptor table) releases them.
ReleaseDescriptor(h, w, s) ==
    IF h.waiters[w].D[s].state = "live" /\ h.waiters[w].D[s].ext
    THEN descriptor_unref([h EXCEPT !.waiters[w].D[s].ext = FALSE], w, s)
    ELSE h

CloseDescriptors(w) ==
    /\ pc = "idle"
    /\ \E s \in Sides : waiters[w].D[s].state = "live" /\ waiters[w].D[s].ext
    /\ Commit(ReleaseDescriptor(ReleaseDescriptor(Heap, w, "timer"), w, "descriptor"))
    /\ UNCHANGED <<sched, host, pc, cur>>

\* thread_resume returns to process_continue, which finishes and returns to
\* _process_notifyStatusChanged, which destroys the listeners.
ThreadResumeReturns ==
    /\ pc = "thread_resume"
    /\ \E running \in BOOLEAN, code \in ReturnCodes, e \in Elapsed, wild \in BOOLEAN :
           LET h1 == process_continue_exit(GuestReturns(Heap, running, code), e)
               h2 == DestroyListeners(h1, cur.waiter, wild)
           IN  Commit(h2) /\ pc' = After(h2)
    /\ cur' = [waiter |-> 0, listened |-> FALSE, timeout |-> FALSE, descriptor |-> FALSE]
    /\ UNCHANGED <<sched, host>>

Next ==
    \/ Schedule
    \/ HostUnref
    \/ FireStartTask
    \/ ThreadRunReturns
    \/ FireStopTask
    \/ GuestListen
    \/ ThreadResumeReturns
    \/ \E w \in Waiters, s \in Sides : StatusEdge(w, s)
    \/ \E s \in Sides : GuestStatusEdge(s)
    \/ \E w \in Waiters : CloseDescriptors(w)

Spec == Init /\ [][Next]_vars

\* The host calls process_schedule a second time, on a Process whose guest is
\* blocked: the only way a start task can find the Process already running.
ScheduleAgain ==
    /\ pc = "idle" /\ host.holdsProcess /\ host.scheduled /\ ~host.rescheduled
    /\ process_isRunning(Heap)
    /\ sched' = ScheduleAll(sched, process_schedule(proc, sched.now))
    /\ LET h1 == IF PostsStart(proc) THEN process_ref(Heap) ELSE Heap
           h2 == IF PostsStop(proc) THEN process_ref(h1) ELSE h1
       IN  Commit(h2)
    /\ host' = [host EXCEPT !.rescheduled = TRUE]
    /\ UNCHANGED <<pc, cur>>

\* The task-level life of a Process that is scheduled twice (no waiters).
NextReschedule ==
    \/ Schedule
    \/ ScheduleAgain
    \/ HostUnref
    \/ FireStartTask
    \/ ThreadRunReturns
    \/ FireStopTask

SpecReschedule == Init /\ [][NextReschedule]_vars

\* =================================================================== claims
Max(a, b) == IF a >= b THEN a ELSE b

Posted(kind) == {i \in 1..Len(sched.posted) : sched.posted[i].kind = kind}

Fired(kind) == {i \in 1..Len(sched.fired) : sched.fired[i].kind = kind}

Alive == pc \in {"idle", "thread_run", "thread_resume"}

\* C1: process_schedule posts a start task iff stopTime = 0 or
\* startTime < stopTime, and the delay of the posted start task is
\* max(1, startTime - now): 1 when startTime <= now, never 0.
C1_StartPosting ==
    /\ ~host.scheduled => sched.posted = <<>>
    /\ host.scheduled =>
        /\ (Posted("start") # {}) <=>
               (proc.stopTime = 0 \/ proc.startTime < proc.stopTime)
        /\ Cardinality(Posted("start")) <= 1
        /\ (proc.stopTime > 0 /\ proc.startTime >= proc.stopTime) => sched.posted = <<>>
        /\ \A i \in Posted("start") :
               LET t == sched.posted[i]
               IN  /\ t.delay = Max(1, proc.startTime - t.at)
                   /\ t.delay # 0
                   /\ proc.startTime <= t.at => t.delay = 1

\* A start that was already due when process_schedule ran was posted one tick ahead.
C1_Witness ==
    /\ host.scheduled
    /\ \E i \in Posted("start") :
           /\ proc.startTime = sched.posted[i].at
           /\ proc.startTime > 0
           /\ sched.posted[i].delay = 1

\* The references on the Process that are accounted for: its creator's, one per
\* task not yet freed, one per listener not yet destroyed.
LiveListeners ==
    {<<w, s>> \in Waiters \X Sides : waiters[w].L[s].state = "live"}

TasksNotFreed == Len(sched.queue) + (IF pc = "thread_run" THEN 1 ELSE 0)

\* C2: process_schedule posts a stop task iff stopTime > 0 and
\* stopTime > startTime, with delay max(1, stopTime - now); every posted task
\* holds one Process reference from its posting until it is freed.
C2_StopPosting ==
    /\ host.scheduled =>
        /\ (Posted("stop") # {}) <=>
               (proc.stopTime > 0 /\ proc.stopTime > proc.startTime)
        /\ Cardinality(Posted("stop")) <= 1
        /\ \A i \in Posted("stop") :
               sched.posted[i].delay = Max(1, proc.stopTime - sched.posted[i].at)
    /\ Alive =>
        proc.referenceCount =
            (IF host.holdsProcess THEN 1 ELSE 0) + TasksNotFreed
            + Cardinality(LiveListeners)

\* Both tasks were posted, ran and were freed; only the creator's reference is left.
C2_Witness ==
    /\ pc = "idle"
    /\ Cardinality(Posted("stop")) = 1
    /\ \E i \in Posted("stop") : sched.posted[i].delay > 1
    /\ Fired("stop") # {}
    /\ host.holdsProcess
    /\ proc.referenceCount = 1

\* The virtual times at which the two tasks of one process_schedule call are due.
StartTime == sched.posted[CHOOSE i \in Posted("start") : TRUE].time

StopTime == sched.posted[CHOOSE i \in Posted("stop") : TRUE].time

ScheduledAt == sched.posted[1].at

BothPosted ==
    /\ 0 < proc.startTime /\ proc.startTime < proc.stopTime
    /\ Posted("start") # {} /\ Posted("stop") # {}

\* C3 (as claimed): with 0 < startTime < stopTime, the start task is due
\* strictly earlier in virtual time than the stop task.
C3_StrictlyBefore == BothPosted => StartTime < StopTime

\* C3 (amended): with 0 < startTime < stopTime, the start task is never due
\* later than the stop task, it is due strictly earlier exactly when
\* now + 1 < stopTime, and the stop task never runs before the start task.
C3_StartNotAfterStop ==
    BothPosted =>
        /\ StartTime <= StopTime
        /\ (StartTime < StopTime) <=> (ScheduledAt + 1 < proc.stopTime)
        /\ \A j \in Fired("stop") : \E i \in Fired("start") : i < j

\* Both tasks were due at the same tick and ran, start first.
C3_Witness ==
    /\ BothPosted
    /\ StartTime = StopTime
    /\ Len(sched.fired) = 2
    /\ sched.fired[1].kind = "start" /\ sched.fired[2].kind = "stop"

Both(w) ==
    /\ waiters[w].alloc # "none"
    /\ waiters[w].has["timer"] /\ waiters[w].has["descriptor"]

\* C4: for a waiter armed with a timer and a descriptor,
\* _process_notifyStatusChanged runs at most once, on the first event (until
\* then both listeners are attached and monitoring); once it has run neither
\* listener is attached or monitoring, so no later expiration or status edge
\* reaches the waiter, and the guest is resumed at most once on its behalf.
C4_SingleFire ==
    \A w \in Waiters : Both(w) =>
        /\ waiters[w].notifyCount <= 1
        /\ waiters[w].resumeCount <= waiters[w].notifyCount
        /\ waiters[w].notifyCount = 0 => \A s \in Sides : Monitoring(Heap, w, s)
        /\ waiters[w].notifyCount = 1 =>
               \A s \in Sides : /\ ~waiters[w].L[s].attached
                                /\ waiters[w].L[s].monitor = "DLF_NEVER"
        /\ waiters[w].lateEdge => waiters[w].notifyCount = 1

\* A two-sided waiter fired, resumed the guest once, was freed, and a later
\* expiration or status edge arrived without effect.
C4_Witness ==
    \E w \in Waiters :
        /\ Both(w)
        /\ waiters[w].notifyCount = 1 /\ waiters[w].resumeCount = 1
        /\ waiters[w].alloc = "freed"
        /\ waiters[w].lateEdge
        /\ pc = "idle"

\* Nothing outside the Process and its waiters holds a reference any more.
Quiescent ==
    /\ pc = "idle"
    /\ sched.queue = <<>>
    /\ ~host.holdsProcess
    /\ \A w \in Waiters, s \in Sides : ~waiters[w].D[s].ext

\* C5: once every posted task has been freed and every external reference has
\* been dropped, every Process and every Waiter that was created has been
\* freed: the FREE counts equal the NEW counts.
C5_RefcountConservation ==
    Quiescent =>
        /\ worker.processFree = worker.processNew
        /\ worker.waiterFree = worker.waiterNew

\* C6: while a listener installed by process_listenForStatus is attached, the
\* Process and the Waiter it references are not freed.
C6_AttachedListenerKeepsAlive ==
    \A w \in Waiters, s \in Sides :
        waiters[w].L[s].attached =>
            /\ ~proc.freed /\ proc.referenceCount >= 1
            /\ waiters[w].alloc = "live" /\ waiters[w].referenceCount >= 1

\* Only the attached listeners keep the Process alive: its creator and both
\* tasks have released it.
C6_Witness ==
    /\ pc = "idle" /\ ~host.holdsProcess /\ sched.queue = <<>>
    /\ Fired("stop") # {}
    /\ \E w \in Waiters : \A s \in Sides : waiters[w].L[s].attached
    /\ proc.referenceCount = 2

\* C7: over the life of a Process the return code is logged at most once and
\* the plugin-error counter is incremented at most once, and only for a
\* nonzero exit code.
C7_LogOnce ==
    /\ worker.returnCodeLines <= 1
    /\ worker.pluginErrors <= worker.returnCodeLines
    /\ worker.returnCodeLines = 1 <=> proc.didLogReturnCode
    /\ worker.pluginErrors = 1 => (worker.loggedCode # 0 /\ thread.returnCode # 0)
    /\ (worker.returnCodeLines = 1 /\ worker.loggedCode = 0) => worker.pluginErrors = 0

\* A guest exit with code 0 was logged, and the stop task ran afterwards.
C7_Witness ==
    /\ pc = "idle"
    /\ worker.returnCodeLines = 1 /\ worker.loggedCode = 0
    /\ worker.pluginErrors = 0
    /\ Fired("stop") # {}

InGuest == pc \in {"thread_run", "thread_resume"}

\* C8: isExecuting is true exactly while control is inside thread_run or
\* thread_resume.
C8_IsExecutingLatch ==
    (Alive /\ ~proc.freed) => (proc.isExecuting <=> InGuest)

\* This step runs the stop task.
StopTaskRuns ==
    /\ Len(sched'.fired) = Len(sched.fired) + 1
    /\ sched'.fired[Len(sched'.fired)].kind = "stop"

\* C9: when the stop task runs with the main Thread present, the Thread is
\* terminated and released, mainThread becomes absent and the total-runtime
\* line is logged.
C9_StopLogsTotalRuntime ==
    [][(StopTaskRuns /\ proc.mainThread # "NULL") =>
          /\ proc'.mainThread = "NULL"
          /\ thread'.state = "terminated"
          /\ thread'.refCount = thread.refCount - 1
          /\ worker'.totalRuntimeLines = worker.totalRuntimeLines + 1]_vars

\* C10 (as claimed): a stop task that runs after the guest has exited changes
\* neither mainThread, the return-code log, the plugin-error counter, the host
\* CPU delay, the tracker's processing time nor the total run time.
C10_StopIsNoOp ==
    [][(StopTaskRuns /\ proc.mainThread = "NULL") =>
          /\ proc'.mainThread = "NULL"
          /\ worker'.returnCodeLines = worker.returnCodeLines
          /\ worker'.pluginErrors = worker.pluginErrors
          /\ worker'.cpuDelay = worker.cpuDelay
          /\ worker'.processingTime = worker.processingTime
          /\ proc'.totalRunTime = proc.totalRunTime]_vars

\* C10 (amended): a stop task that runs after the guest has exited leaves
\* mainThread absent, the Thread, the return-code log and the plugin-error
\* counter unchanged; the host CPU delay and the tracker's processing time
\* grow by the measured time of the call converted to virtual time, and the
\* total run time by the measured time.
C10_StopTouchesOnlyAccounting ==
    [][(StopTaskRuns /\ proc.mainThread = "NULL") =>
          /\ proc'.mainThread = "NULL"
          /\ thread' = thread
          /\ worker'.returnCodeLines = worker.returnCodeLines
          /\ worker'.totalRuntimeLines = worker.totalRuntimeLines
          /\ worker'.pluginErrors = worker.pluginErrors
          /\ proc'.totalRunTime >= proc.totalRunTime
          /\ worker'.cpuDelay - worker.cpuDelay =
                 ((proc'.totalRunTime - proc.totalRunTime) * SIMTIME_ONE_SECOND)
                     \div TimerTicksPerSecond
          /\ worker'.processingTime - worker.processingTime =
                 worker'.cpuDelay - worker.cpuDelay]_vars

\* The stop task ran after the guest had exited and been collected by check.
C10_Witness ==
    /\ pc = "idle"
    /\ Len(sched.fired) = 2 /\ sched.fired[2].kind = "stop"
    /\ worker.totalRuntimeLines = 1
    /\ thread.refCount = 0 /\ thread.state = "terminated"

\* This step runs _process_notifyStatusChanged for waiter w.
NotifyRuns(w) == waiters'[w].notifyCount = waiters[w].notifyCount + 1

\* C11: process_continue on a Process that is not running is a no-op: no
\* thread is resumed, the active-process slot and isExecuting are not set, no
\* CPU delay or run time is added and check is not invoked.
C11_ContinueNotRunningIsNoOp ==
    [][\A w \in Waiters :
          (NotifyRuns(w) /\ ~(proc.mainThread # "NULL" /\ thread.state = "running")) =>
              /\ pc' # "thread_resume"
              /\ waiters'[w].resumeCount = waiters[w].resumeCount
              /\ worker'.activeProcess = worker.activeProcess
              /\ proc'.isExecuting = proc.isExecuting
              /\ worker'.cpuDelay = worker.cpuDelay
              /\ worker'.processingTime = worker.processingTime
              /\ proc'.totalRunTime = proc.totalRunTime
              /\ proc'.mainThread = proc.mainThread
              /\ thread'.state = thread.state
              /\ worker'.returnCodeLines = worker.returnCodeLines
              /\ worker'.totalRuntimeLines = worker.totalRuntimeLines]_vars

\* A waiter fired after the Process had been stopped: it was notified, and
\* nothing was resumed.
C11_Witness ==
    /\ pc = "idle"
    /\ proc.mainThread = "NULL"
    /\ Fired("stop") # {}
    /\ \E w \in Waiters :
           /\ waiters[w].notifyCount = 1
           /\ waiters[w].resumeCount = 0
           /\ waiters[w].alloc = "freed"

StartTaskRuns ==
    /\ Len(sched'.fired) = Len(sched.fired) + 1
    /\ sched'.fired[Len(sched'.fired)].kind = "start"

\* C12: a start task that fires on an already-running Process changes nothing:
\* no log file is opened or truncated, no Thread is created, threadIDCounter
\* is not incremented, thread run is not called and no CPU delay is added.
\* The only change of the step is the reference the fired task gives back
\* (the formula looks at steps in which that is not the last reference).
C12_StartOnRunningIsNoOp ==
    [][(/\ StartTaskRuns
        /\ proc.mainThread # "NULL" /\ thread.state = "running"
        /\ proc.referenceCount > 1) =>
           /\ proc' = [proc EXCEPT !.referenceCount = @ - 1]
           /\ thread' = thread
           /\ worker' = worker
           /\ waiters' = waiters
           /\ pc' = "idle"]_vars

\* A second start task has fired while the guest of the first was blocked.
C12_Witness ==
    /\ Cardinality(Fired("start")) = 2
    /\ Fired("stop") = {}
    /\ proc.mainThread # "NULL" /\ thread.state = "running"
    /\ proc.threadIDCounter = 1
    /\ worker.openFDs = {proc.stdoutFD, proc.stderrFD}
    /\ pc = "idle"

\* C13: the Process reference count is never negative; the Process is freed
\* exactly when the count reaches zero, never earlier and never twice; and a
\* Process freed while its main thread is present and running terminates the
\* thread before releasing it.
C13_RefcountAndFree ==
    /\ proc.referenceCount >= 0
    /\ ~worker.assertFailed
    /\ proc.freed <=> (proc.referenceCount = 0)
    /\ worker.processFree = (IF proc.freed THEN 1 ELSE 0)
    /\ proc.freed => /\ proc.mainThread = "NULL"
                     /\ thread.state \notin {"new", "running"}
    /\ thread.freed => thread.state \in {"exited", "terminated"}
    /\ thread.terminations <= 1

\* The last reference went away while the guest was blocked: the Process was
\* freed without a stop task having run, and its thread was terminated.
C13_Witness ==
    /\ proc.freed
    /\ Fired("start") # {} /\ Fired("stop") = {}
    /\ thread.state = "terminated"
    /\ thread.terminations = 1
    /\ thread.freed

\* The Process still has the handle fd, open and unchanged, after the step.
KeepsOpen(fd, fdAfter) ==
    (fd >= 0 /\ ~proc'.freed) => (fdAfter = fd /\ fd \in worker'.openFDs)

\* C14: a new Process has stdoutFD = stderrFD = -1 and no main thread until
\* its start task fires; once start has opened the two files, both handles
\* stay open, neither closed nor replaced, until the Process is freed, and the
\* free closes each handle that is >= 0.
C14_LogHandles ==
    /\ [](Fired("start") = {} =>
             /\ proc.stdoutFD = -1 /\ proc.stderrFD = -1
             /\ proc.mainThread = "NULL" /\ thread.state = "none")
    /\ []((~proc.freed /\ proc.stdoutFD >= 0 /\ proc.stderrFD >= 0) =>
             /\ proc.stdoutFD # proc.stderrFD
             /\ worker.openFDs = {proc.stdoutFD, proc.stderrFD})
    /\ [](proc.freed => worker.openFDs = {})
    /\ [][/\ KeepsOpen(proc.stdoutFD, proc'.stdoutFD)
          /\ KeepsOpen(proc.stderrFD, proc'.stderrFD)]_vars

\* A Process that ran, was stopped, and was freed with both handles set: the
\* free closed them.
C14_Witness ==
    /\ proc.freed
    /\ proc.stdoutFD >= 0 /\ proc.stderrFD >= 0
    /\ Fired("stop") # {}
    /\ worker.openFDs = {}

\* This step is a call of process_listenForStatus by the guest.
ListenCalled == cur'.listened /\ ~cur.listened

\* C15: process_listenForStatus with both the timeout and the descriptor
\* absent has no effect: no Waiter is allocated, no listener is created, and
\* the reference counts of the Process and of the Thread are unchanged.
C15_ListenForNothingIsNoOp ==
    [][(ListenCalled /\ ~cur'.timeout /\ ~cur'.descriptor) =>
           /\ waiters' = waiters
           /\ worker' = worker
           /\ proc' = proc
           /\ thread' = thread
           /\ pc' = pc]_vars

\* The guest of a resumed Process has called process_listenForStatus with
\* nothing to wait for.
C15_Witness ==
    /\ pc = "thread_resume"
    /\ cur.listened /\ ~cur.timeout /\ ~cur.descriptor
    /\ worker.waiterNew = 1
    /\ thread.refCount = 2

\* A guest burst (thread_run or thread_resume) returns in this step.
BurstEnds == InGuest /\ pc' \notin {"thread_run", "thread_resume"}

\* C16: with the elapsed time of a burst a bounded natural number,
\* totalRunTime and the host's CPU delay never decrease, and each guest burst
\* adds its elapsed time to totalRunTime and that time converted to virtual
\* time to the CPU delay and to the tracker's processing time.
C16_TimeAccounting ==
    [][/\ proc'.totalRunTime >= proc.totalRunTime
       /\ worker'.cpuDelay >= worker.cpuDelay
       /\ BurstEnds =>
              \E e \in Elapsed :
                  /\ proc'.totalRunTime = proc.totalRunTime + e
                  /\ worker'.cpuDelay =
                         worker.cpuDelay + (e * SIMTIME_ONE_SECOND) \div TimerTicksPerSecond
                  /\ worker'.processingTime =
                         worker.processingTime + (e * SIMTIME_ONE_SECOND) \div TimerTicksPerSecond
       /\ (~InGuest /\ ~StopTaskRuns) =>
              /\ proc'.totalRunTime = proc.totalRunTime
              /\ worker'.cpuDelay = worker.cpuDelay
              /\ worker'.processingTime = worker.processingTime]_vars

\* A resumed burst with a non-zero elapsed time has been accounted for.
C16_Witness ==
    /\ pc = "idle"
    /\ \E w \in Waiters : waiters[w].resumeCount = 1
    /\ proc.totalRunTime = MaxElapsed
    /\ worker.cpuDelay = (MaxElapsed * SIMTIME_ONE_SECOND) \div TimerTicksPerSecond
    /\ worker.processingTime = worker.cpuDelay

\* process_schedule was called at or after the stop time of a Process that
\* gets both tasks.
SameTick == /\ host.scheduled
            /\ proc.stopTime > proc.startTime
            /\ ScheduledAt >= proc.stopTime

\* C17: when both tasks resolve to the same tick (now >= stopTime > startTime,
\* both delays 1) the start task is posted before the stop task, so with
\* firing in insertion order start runs first; and in no schedule does the
\* stop task of a Process fire before its start task.
C17_StartFiresBeforeStop ==
    host.scheduled =>
        /\ Posted("stop") # {} => Posted("start") # {}
        /\ \A i \in Posted("start"), j \in Posted("stop") : i < j
        /\ SameTick =>
               /\ Len(sched.posted) = 2
               /\ \A i \in 1..2 : /\ sched.posted[i].delay = 1
                                  /\ sched.posted[i].time = ScheduledAt + 1
               /\ sched.fired # <<>> => sched.fired[1].kind = "start"
        /\ \A j \in Fired("stop") : \E i \in Fired("start") : i < j

\* A Process with startTime 0 scheduled after its stop time: both tasks got
\* delay 1 and ran in the same tick, start first.
C17_Witness ==
    /\ SameTick
    /\ proc.startTime = 0
    /\ Len(sched.fired) = 2
    /\ sched.fired[1].kind = "start" /\ sched.fired[2].kind = "stop"
    /\ sched.fired[1].time = sched.fired[2].time

\* C18: _process_notifyStatusChanged detaches both listeners and disables
\* their monitoring before it calls process_continue: while the guest is
\* resumed on behalf of a waiter, no listener of that waiter is attached or
\* monitoring, and a status change the guest causes on the same timer or
\* descriptor does not run _process_notifyStatusChanged for it again.
C18_NoReentry ==
    pc = "thread_resume" =>
        /\ cur.waiter \in Waiters
        /\ waiters[cur.waiter].alloc = "live"
        /\ waiters[cur.waiter].notifyCount = 1
        /\ waiters[cur.waiter].resumeCount = 1
        /\ \A s \in Sides :
               /\ ~waiters[cur.waiter].L[s].attached
               /\ waiters[cur.waiter].L[s].monitor = "DLF_NEVER"
               /\ waiters[cur.waiter].has[s] =>
                      /\ waiters[cur.waiter].L[s].state = "live"
                      /\ waiters[cur.waiter].L[s].refCount = 1

\* The resumed guest has caused a status change on a descriptor of the
\* two-sided waiter it was resumed for.
C18_Witness ==
    /\ pc = "thread_resume"
    /\ Both(cur.waiter)
    /\ waiters[cur.waiter].lateEdge
    /\ waiters[cur.waiter].notifyCount = 1

\* The number of present sides of waiter w after / before the step.
SidesAfter(w) == Cardinality({s \in Sides : waiters'[w].has[s]})

SidesOf(w) == Cardinality({s \in Sides : waiters[w].has[s]})

\* C19: process_listenForStatus arming a Waiter with k present sides (k = 1 or
\* 2) leaves the Waiter with reference count k and adds k to the Process
\* count; when the waiter has fired and _process_notifyStatusChanged is done,
\* both listeners are destroyed, the Process count has dropped by k, the
\* Waiter count is zero, the Waiter has released its references to the
\* thread, the timer and the descriptor, and it has been freed exactly once.
C19_WaiterRefcounts ==
    /\ [](\A w \in Waiters :
             /\ waiters[w].alloc = "live" =>
                    /\ SidesOf(w) \in {1, 2}
                    /\ waiters[w].referenceCount = SidesOf(w)
                    /\ \A s \in Sides :
                           waiters[w].has[s] <=> waiters[w].L[s].state = "live"
             /\ waiters[w].alloc = "freed" =>
                    /\ waiters[w].referenceCount = 0
                    /\ waiters[w].notifyCount = 1
                    /\ \A s \in Sides :
                           /\ waiters[w].L[s].state # "live"
                           /\ waiters[w].D[s].refCount =
                                  (IF waiters[w].D[s].state = "live" THEN 1 ELSE 0)
                           /\ waiters[w].D[s].state = "live" => waiters[w].D[s].ext)
    /\ [](/\ worker.waiterFree = Cardinality({w \in Waiters : waiters[w].alloc = "freed"})
          /\ thread.refCount =
                 (IF proc.mainThread # "NULL" THEN 1 ELSE 0)
                 + Cardinality({w \in Waiters : waiters[w].alloc = "live"})
          /\ ~worker.assertFailed)
    /\ [][\A w \in Waiters :
             /\ (waiters[w].alloc = "none" /\ waiters'[w].alloc = "live") =>
                    /\ waiters'[w].referenceCount = SidesAfter(w)
                    /\ proc'.referenceCount = proc.referenceCount + SidesAfter(w)
                    /\ thread'.refCount = thread.refCount + 1
             /\ (waiters[w].alloc = "live" /\ waiters'[w].alloc = "freed") =>
                    /\ proc'.referenceCount = proc.referenceCount - SidesOf(w)
                    /\ worker'.waiterFree = worker.waiterFree + 1]_vars

\* A two-sided waiter fired, the guest ran and blocked again, and
\* _process_notifyStatusChanged finished: the waiter is gone and only the
\* Process holds the thread.
C19_Witness ==
    /\ pc = "idle"
    /\ ~proc.freed /\ proc.mainThread # "NULL"
    /\ thread.refCount = 1
    /\ \E w \in Waiters :
           /\ Both(w)
           /\ waiters[w].alloc = "freed"
           /\ waiters[w].resumeCount = 1
           /\ worker.waiterFree = 1

GuestOutcomes == [running : BOOLEAN, code : ReturnCodes, e : Elapsed, wild : BOOLEAN]

\* Waiter w is armed on both sides, and both its timer and its descriptor can
\* become ready now.
BothCanFire(w) ==
    /\ pc = "idle"
    /\ Both(w) /\ waiters[w].alloc = "live" /\ waiters[w].notifyCount = 0
    /\ \A s \in Sides : waiters[w].D[s].state = "live" /\ waiters[w].D[s].ext

TimerFirst(w, o) ==
    DeliverEdge(DeliverEdge(Heap, w, "timer", o), w, "descriptor", o)

DescriptorFirst(w, o) ==
    DeliverEdge(DeliverEdge(Heap, w, "descriptor", o), w, "timer", o)

\* What both orders leave behind, with the guest resumed n times.
FiredOnce(h, w, n) ==
    /\ h.waiters[w].notifyCount = 1
    /\ h.waiters[w].resumeCount = n
    /\ h.waiters[w].alloc = "freed"
    /\ h.waiters[w].referenceCount = 0
    /\ \A s \in Sides : /\ ~h.waiters[w].L[s].attached
                        /\ h.waiters[w].L[s].state = "freed"
    /\ h.proc.referenceCount = proc.referenceCount - 2

\* C20 (as claimed): when the timer and the descriptor of a two-sided waiter
\* become ready in the same tick, either delivery order gives the same state,
\* with exactly one resume of the guest, both listeners detached, the same
\* reference counts and the waiter freed.
C20_SameStateOneResume ==
    \A w \in Waiters : BothCanFire(w) =>
        \A o \in GuestOutcomes :
            /\ TimerFirst(w, o) = DescriptorFirst(w, o)
            /\ FiredOnce(TimerFirst(w, o), w, 1)

\* C20 (amended): either delivery order gives the same state, with the guest
\* resumed once if the Process is running when the first listener is
\* delivered and not at all if it has been stopped since the waiter was armed;
\* both listeners detached, the same reference counts, the waiter freed.
C20_OrderIndependent ==
    \A w \in Waiters : BothCanFire(w) =>
        \A o \in GuestOutcomes :
            /\ TimerFirst(w, o) = DescriptorFirst(w, o)
            /\ FiredOnce(TimerFirst(w, o), w,
                         IF proc.mainThread # "NULL" /\ thread.state = "running"
                         THEN 1 ELSE 0)

\* A two-sided waiter of a running Process with both sides able to fire, for
\* which the two delivery orders end with the guest resumed once and exited.
C20_Witness ==
    \E w \in Waiters :
        /\ BothCanFire(w)
        /\ proc.mainThread # "NULL" /\ thread.state = "running"
        /\ \E o \in GuestOutcomes :
               /\ ~o.running
               /\ TimerFirst(w, o).waiters[w].resumeCount = 1
               /\ DescriptorFirst(w, o).waiters[w].lateEdge
               /\ DescriptorFirst(w, o).proc.mainThread = "NULL"

\* C21: the worker's active-process slot holds the Process exactly while the
\* Process is inside start, continue or stop between worker_setActiveProcess
\* (proc) and worker_setActiveProcess(NULL): it is the Process during every
\* guest burst, it is cleared before _process_check runs, and it is empty
\* whenever no core call is executing.
C21_ActiveProcessSlot ==
    /\ worker.activeProcess = (IF pc \in {"thread_run", "thread_resume"}
                               THEN "proc" ELSE "NULL")
    /\ ~worker.checkedWhileActive

\* A resumed guest exited: process_continue cleared the slot and
\* _process_check logged the exit.
C21_Witness ==
    /\ pc = "idle"
    /\ worker.activeProcess = "NULL"
    /\ worker.totalRuntimeLines = 1
    /\ \E w \in Waiters : waiters[w].resumeCount = 1
    /\ thread.state = "terminated"

BadInterposeMethod ==
    proc.interposeMethod \notin {"INTERPOSE_PTRACE", "INTERPOSE_PRELOAD"}

\* C22: starting a Process whose interposeMethod is neither PTRACE nor PRELOAD
\* ends in the fatal error state: no Thread is created, thread_run is never
\* called for it and the Process never becomes running.
C22_BadInterposeMethodIsFatal ==
    BadInterposeMethod =>
        /\ thread.state = "none"
        /\ proc.mainThread = "NULL"
        /\ proc.threadIDCounter = 0
        /\ pc \notin {"thread_run", "thread_resume"}
        /\ ~proc.isExecuting
        /\ worker.activeProcess = "NULL"
        /\ Fired("start") # {} => (pc = "aborted" /\ worker.fatal)
        /\ Fired("start") = {} => pc = "idle"

\* The start task of a Process with an unknown interposeMethod has fired and
\* both log files were opened: the error is the one about the method.
C22_Witness ==
    /\ BadInterposeMethod
    /\ Fired("start") # {}
    /\ proc.stdoutFD >= 0 /\ proc.stderrFD >= 0
    /\ worker.fatal
    /\ pc = "aborted"

\* C23: whenever no core call is executing, a present mainThread is a running
\* thread, so process_isRunning is the same as mainThread being present; and
\* the assertion mainThread == NULL of _process_start never fails.
C23_PresentThreadIsRunning ==
    /\ pc \notin {"thread_run", "thread_resume"} =>
           /\ proc.mainThread # "NULL" => thread.state = "running"
           /\ process_isRunning(Heap) <=> (proc.mainThread # "NULL")
    /\ proc.mainThread = "NULL" => thread.state \in {"none", "terminated"}
    /\ ~worker.assertFailed

\* Between two handlers, after a resumed guest has blocked again: the main
\* thread is present and running.
C23_Witness ==
    /\ pc = "idle"
    /\ proc.mainThread # "NULL"
    /\ thread.state = "running"
    /\ \E w \in Waiters : waiters[w].resumeCount = 1 /\ waiters[w].alloc = "freed"

\* C24: within _process_notifyStatusChanged no field of the Waiter is read
\* after the Waiter has been freed, whatever the waiter's shape (timer only,
\* descriptor only, both): the Waiter is allocated at every read of
\* waiter->timerListener and waiter->descriptorListener.
C24_NoReadOfFreedWaiter == ~worker.useAfterFree

\* C25: once the stop task of a Process has fired, guest code of that Process
\* is never entered again: process_stop leaves a still-armed Waiter as it is,
\* and when that waiter's timer or descriptor fires later,
\* _process_notifyStatusChanged detaches and destroys the listeners and its
\* process_continue does not resume the terminated thread.
C25_NoGuestAfterStop ==
    /\ [](Fired("stop") # {} =>
             /\ pc \notin {"thread_run", "thread_resume"}
             /\ proc.mainThread = "NULL"
             /\ thread.state = "terminated"
             /\ ~proc.isExecuting)
    /\ [][StopTaskRuns => waiters' = waiters]_vars
    /\ [][\A w \in Waiters :
             (Fired("stop") # {} /\ NotifyRuns(w)) =>
                 /\ waiters'[w].resumeCount = waiters[w].resumeCount
                 /\ thread'.state = "terminated"
                 /\ \A s \in Sides : /\ ~waiters'[w].L[s].attached
                                     /\ waiters'[w].L[s].state # "live"
                 /\ waiters'[w].alloc = "freed"]_vars

\* The guest was blocked on a timer and a descriptor when the stop task fired;
\* one of them fired afterwards: the listeners are gone and nothing resumed.
C25_Witness ==
    /\ Fired("stop") # {}
    /\ thread.terminations = 1
    /\ \E w \in Waiters :
           /\ Both(w)
           /\ waiters[w].notifyCount = 1
           /\ waiters[w].resumeCount = 0
           /\ \A s \in Sides : waiters[w].L[s].state = "freed"
    /\ worker.totalRuntimeLines = 0

====
